---- MODULE Spec2Model ----
(***************************************************************************)
(* Model of db.SqlxDatabase.Transact (src/db/database.go): the retry loop  *)
(* that runs a caller-supplied TxFunc inside a database transaction and    *)
(* retries it on serialization conflicts.                                  *)
(*                                                                         *)
(* One call of Transact is modelled step by step.  Every call the loop     *)
(* makes to a collaborator (time.Sleep, BeginTxx, fn, Rollback, Commit) is *)
(* one action whose outcome is chosen nondeterministically, and is         *)
(* appended to the history variable trace.                                 *)
(***************************************************************************)
EXTENDS Integers, Sequences, FiniteSets

(* ---------------------------------------------------------------------- *)
(* Bounds                                                                 *)
(* ---------------------------------------------------------------------- *)
\* largest value of SerializationRetryMaxAttempts explored
MaxAttemptsBound == 3

\* largest number of options passed to one call of Transact
MaxOpts == 2

\* number of callers running Transact concurrently
NumCallers == 2

\* largest number of facades, and of "database done" entries
MaxFacades == 3

MaxDoneLogs == 2

\* number of concurrent calls of WriteBlob
NumWriters == 3

(* ---------------------------------------------------------------------- *)
(* Program constants                                                      *)
(* ---------------------------------------------------------------------- *)
\* 100*time.Millisecond, in nanoseconds
SlowThreshold == 100000000

(* ---------------------------------------------------------------------- *)
(* Values                                                                 *)
(* ---------------------------------------------------------------------- *)
\* Go's nil interface{} value
Nil == "nil"

\* values a TxFunc may return as its result
Values == {"v1", "v2"}

\* an error value: where it came from and what it carries
Err(src, code) == [src |-> src, code |-> code]

\* Go's nil error
NilErr == Err("nil", "nil")

\* the sentinel returned when the retries are exhausted
ErrSerialization == Err("db", "ErrSerialization")

\* SQL states of "serialization_failure" and "deadlock_detected"
SerializationCodes == {"40001", "40P01"}

\* the error classifier: true of the two conflict conditions only
IsSerializationError(err) == err.code \in SerializationCodes

\* backoff units explored (milliseconds)
BackoffUnits == {2, 10}

\* outcomes of d.db.BeginTxx
BeginErrors == {NilErr, Err("begin", "40001"), Err("begin", "other")}

\* outcomes of fn: the pair (ret, err) it returns
FnErrors == {NilErr, Err("fn", "40001"), Err("fn", "40P01"), Err("fn", "other"),
             ErrSerialization}

FnOutcomes == { <<r, e>> : r \in Values \cup {Nil}, e \in FnErrors }

\* server versions
Versions == {"PostgreSQL 11.5", "PostgreSQL 12.3"}

\* what may follow a prefix in a data directory
PathRests == {"", "/db", "2/db"}

\* strings.HasPrefix(s, prefix), for the strings above
HasPrefix(s, prefix) == \E r \in PathRests : s = prefix \o r

\* strconv.FormatBool(b)
FormatBool(b) == IF b THEN "true" ELSE "false"

\* what the query of pg_settings can select: named sets of rows
PgSettingsRows ==
    [none |-> {},
     rds |-> {[Name |-> "data_directory", Setting |-> "/rdsdata/db"],
              [Name |-> "TimeZone", Setting |-> "UTC"]},
     rds2 |-> {[Name |-> "data_directory", Setting |-> "/rdsdata2/db"]},
     local |-> {[Name |-> "data_directory", Setting |-> "/var/db"],
                [Name |-> "work_mem", Setting |-> "4096"]}]

\* the key a row of pg_settings is stored under by the TxFunc of Metadata
SettingKey(row) == IF row.Name = "data_directory" THEN "is_rds" ELSE row.Name

\* the value it is stored with
SettingValue(row) ==
    IF row.Name = "data_directory"
    THEN FormatBool(HasPrefix(row.Setting, "/rdsdata"))
    ELSE row.Setting

\* the map the TxFunc of Metadata builds from the rows named rows
Settings(rows) ==
    [k \in { SettingKey(row) : row \in PgSettingsRows[rows] } |->
        SettingValue(CHOOSE row \in PgSettingsRows[rows] : SettingKey(row) = k)]

\* outcomes of the TxFunc passed to Transact: any TxFunc, or one of those of
\* getVersion, getAuroraVersion and Metadata; the map Metadata's TxFunc
\* returns is named by the rows it was built from
FnOutcomesOf(f) ==
    CASE f = "any" -> FnOutcomes
      [] f \in {"version", "aurora"} ->
           { <<v, NilErr>> : v \in Versions }
              \cup { <<"", e>> : e \in FnErrors \ {NilErr} }
      [] f = "settings" ->
           { <<rows, NilErr>> : rows \in DOMAIN PgSettingsRows }
              \cup { <<Nil, e>> : e \in FnErrors \ {NilErr} }

\* outcomes of tx.Rollback
RollbackErrors == {NilErr, Err("rollback", "40001"), Err("rollback", "other")}

\* outcomes of tx.Commit
CommitErrors == {NilErr, Err("commit", "40001"), Err("commit", "other")}

\* context.Background(), which is never cancelled
Background == "background"

\* contexts a caller may bind to a facade or to a call
Contexts == {"ctx1", "ctx2"}

\* the error of a call made with a cancelled context
CtxCanceled == Err("ctx", "canceled")

\* sql.ErrTxDone: the transaction was already committed or rolled back
ErrTxDone == Err("tx", "done")

\* a logger: its base and the context it was derived with
Logger(base, ctx) == [base |-> base, ctx |-> ctx]

\* logging.Default()
DefaultLogger == Logger("default", Nil)

\* logging.Dummy()
DummyLogger == Logger("dummy", Nil)

\* a nil pointer, and a pointer to x
NilPtr == <<>>

Ptr(x) == <<x>>

\* a facade: the pool, and its queryOptions, nil or a pointer to a logger
\* and a context
Facade(qo) == [db |-> "db", queryOptions |-> qo]

\* NewSqlxDatabase(db)
NewSqlxDatabase == Facade(NilPtr)

\* the facade WithContext(ctx) returns
DerivedFacade(ctx) ==
    Facade(Ptr([logger |-> Logger("default", ctx), ctx |-> ctx]))

\* DefaultTxOptions()
DefaultTxOptions ==
    [logger |-> DefaultLogger, ctx |-> Background,
     isolationLevel |-> "serializable", readOnly |-> FALSE]

\* a TxOpt: the option function and its argument, a logger or another value
TxOpt(name, arg, l) == [opt |-> name, arg |-> arg, logger |-> l]

ReadOnly == TxOpt("ReadOnly", Nil, Logger(Nil, Nil))

WithLogger(l) == TxOpt("WithLogger", Nil, l)

WithContext(ctx) == TxOpt("WithContext", ctx, Logger(Nil, Nil))

WithIsolationLevel(level) == TxOpt("WithIsolationLevel", level, Logger(Nil, Nil))

\* opt(options): the effect of one option function on the options
ApplyOpt(o, options) ==
    CASE o.opt = "ReadOnly" -> [options EXCEPT !.readOnly = TRUE]
      [] o.opt = "WithLogger" -> [options EXCEPT !.logger = o.logger]
      [] o.opt = "WithContext" -> [options EXCEPT !.ctx = o.arg]
      [] o.opt = "WithIsolationLevel" -> [options EXCEPT !.isolationLevel = o.arg]

\* option functions a caller may pass
TxOpts ==
    {ReadOnly, WithIsolationLevel("read committed"), WithLogger(DummyLogger),
     WithContext("ctx1"), WithContext("ctx2")}

\* option lists a caller may pass
OptSeqs == UNION { [1..n -> TxOpts] : n \in 0..MaxOpts }

\* ApplyOpts applying the options from the last to the first
RECURSIVE ApplyOptsReversed(_, _)
ApplyOptsReversed(os, options) ==
    IF os = <<>> THEN options
    ELSE ApplyOpt(Head(os), ApplyOptsReversed(Tail(os), options))

\* for _, opt := range opts { opt(options) }
RECURSIVE ApplyOpts(_, _)
ApplyOpts(os, options) ==
    IF os = <<>> THEN options
    ELSE ApplyOpts(Tail(os), ApplyOpt(Head(os), options))

\* d.getTxOptions()
getTxOptions(f) ==
    IF f.queryOptions # NilPtr
    THEN [DefaultTxOptions EXCEPT !.logger = f.queryOptions[1].logger,
                                  !.ctx = f.queryOptions[1].ctx]
    ELSE DefaultTxOptions

(* ---------------------------------------------------------------------- *)
(* State                                                                  *)
(* ---------------------------------------------------------------------- *)
VARIABLES
    SerializationRetryMaxAttempts,   \* the retry budget (fixed per behaviour)
    SerializationRetryStartInterval, \* the backoff unit (fixed per behaviour)
    pc,              \* position of the call inside Transact
    attempt,         \* local variable attempt
    ret,             \* local variable ret
    err,             \* local variable err
    tx,              \* the transaction handle of the attempt, or Nil
    openTx,          \* handles begun and neither committed nor rolled back
    result,          \* first value returned by Transact
    retErr,          \* second value returned by Transact
    dbRetriesCount,  \* the retries counter
    warnings,        \* warnings written to options.logger
    trace,           \* calls made to the collaborators, in order
    facades,         \* the facades created so far
    d,               \* the facade Transact is called on (index in facades)
    opts,            \* the options passed to Transact
    fn,              \* the TxFunc passed to Transact
    options,         \* local variable options, nil before the call
    begins,          \* arguments of the calls to BeginTxx, in order
    cancelled,       \* contexts that have been cancelled
    cancelledAt,     \* where the call was when its context was cancelled, or nil
    created,         \* the context each facade was created with (Nil: none)
    doneLogs,        \* number of "database done" entries logged
    lastCall,        \* the last call of Get, Queryx or Exec, or nil
    callers,         \* concurrent calls of Transact: caller -> state of its call
    inUse,           \* connections of the pool held by a transaction
    poolSize,        \* number of connections of the pool
    mpc,             \* position of the call inside Metadata
    metadata,        \* local variable metadata of Metadata
    mret,            \* what Metadata returned, or nil
    subcalls,        \* what each Transact called by Metadata returned
    writers,         \* concurrent calls of WriteBlob: writer -> state of its call
    objects,         \* names of the objects held by the block adapter
    dedup,           \* the dedup index: <<repoId, dedupId>> -> object name
    removes          \* calls of adapter.Remove: <<writer, object name>>

\* state of the other components, which Transact never touches
facadeVars == <<created, doneLogs, lastCall>>

poolVars == <<callers, inUse, poolSize>>

metaVars == <<mpc, metadata, mret, subcalls>>

blobVars == <<writers, objects, dedup, removes>>

outside == <<facadeVars, poolVars, metaVars, blobVars>>

vars == <<SerializationRetryMaxAttempts, SerializationRetryStartInterval, pc,
          attempt, ret, err, tx, openTx, result, retErr, dbRetriesCount,
          warnings, trace, facades, d, opts, fn, options, begins, cancelled,
          cancelledAt, outside>>

policy == <<SerializationRetryMaxAttempts, SerializationRetryStartInterval>>

\* the variables of the call of Transact, but the shared retries counter
call == <<pc, attempt, ret, err, tx, openTx, result, retErr, warnings, trace,
          options, begins>>

\* what a call of Transact is given and does not change
env == <<facades, d, opts, fn, cancelled, cancelledAt>>

\* one call to a collaborator, as recorded in trace
Ev(op, a, r, e, dur) ==
    [op |-> op, attempt |-> a, ret |-> r, err |-> e, dur |-> dur]

\* no call of Transact has started
CallIdle ==
    /\ pc = "idle"
    /\ attempt = 0
    /\ ret = Nil
    /\ err = NilErr
    /\ tx = Nil
    /\ openTx = {}
    /\ result = Nil
    /\ retErr = NilErr
    /\ dbRetriesCount = 0
    /\ warnings = <<>>
    /\ trace = <<>>
    /\ options = NilPtr
    /\ begins = <<>>
    /\ cancelled = {}
    /\ cancelledAt = NilPtr

\* no direct query has been made
FacadeIdle ==
    /\ created = <<>>
    /\ doneLogs = 0
    /\ lastCall = NilPtr

\* no concurrent caller
PoolIdle ==
    /\ callers = <<>>
    /\ inUse = {}
    /\ poolSize = 1

\* Metadata is not running
MetaIdle ==
    /\ mpc = "idle"
    /\ metadata = <<>>
    /\ mret = NilPtr
    /\ subcalls = <<>>

\* no upload
BlobIdle ==
    /\ writers = <<>>
    /\ objects = {}
    /\ dedup = <<>>
    /\ removes = {}

\* a call of Transact(fn) with no option, on the facade NewSqlxDatabase made
Init ==
    /\ SerializationRetryMaxAttempts \in 1..MaxAttemptsBound
    /\ SerializationRetryStartInterval \in BackoffUnits
    /\ CallIdle
    /\ facades = <<NewSqlxDatabase>>
    /\ d = 1
    /\ opts = <<>>
    /\ fn = "any"
    /\ FacadeIdle
    /\ PoolIdle
    /\ MetaIdle
    /\ BlobIdle

(* ---------------------------------------------------------------------- *)
(* Transact                                                               *)
(* ---------------------------------------------------------------------- *)
\* "return r, e"
Return(r, e) ==
    /\ pc' = "done"
    /\ result' = r
    /\ retErr' = e

\* options := d.getTxOptions(); the options applied; var attempt, ret
Transact ==
    /\ pc = "idle"
    /\ d \in DOMAIN facades
    /\ options' = Ptr(ApplyOpts(opts, getTxOptions(facades[d])))
    /\ pc' = "loop"
    /\ attempt' = 0
    /\ ret' = Nil
    /\ UNCHANGED <<policy, env, outside, begins, err, tx, openTx, result, retErr,
                   dbRetriesCount, warnings, trace>>

\* LoopCheck returning the last raw error when the budget is exhausted
LoopCheckRawErr ==
    /\ pc = "loop"
    /\ IF attempt < SerializationRetryMaxAttempts
       THEN /\ pc' = IF attempt > 0 THEN "sleep" ELSE "begin"
            /\ UNCHANGED <<result, retErr, warnings>>
       ELSE /\ warnings' = warnings
            /\ Return(Nil, err)
    /\ UNCHANGED <<policy, env, outside, options, begins,
                   attempt, ret, err, tx, openTx, dbRetriesCount, trace>>

\* LoopCheck comparing with <= instead of <
LoopCheckOffByOne ==
    /\ pc = "loop"
    /\ IF attempt <= SerializationRetryMaxAttempts
       THEN /\ pc' = IF attempt > 0 THEN "sleep" ELSE "begin"
            /\ UNCHANGED <<result, retErr, warnings>>
       ELSE /\ warnings' = warnings
            /\ Return(Nil, ErrSerialization)
    /\ UNCHANGED <<policy, env, outside, options, begins,
                   attempt, ret, err, tx, openTx, dbRetriesCount, trace>>

\* LoopCheck never leaving the loop once the attempts are used up
LoopCheckSpins ==
    /\ pc = "loop"
    /\ IF attempt < SerializationRetryMaxAttempts
       THEN /\ pc' = IF attempt > 0 THEN "sleep" ELSE "begin"
            /\ UNCHANGED <<result, retErr, warnings>>
       ELSE /\ pc' = "loop"
            /\ UNCHANGED <<result, retErr, warnings>>
    /\ UNCHANGED <<policy, env, outside, options, begins,
                   attempt, ret, err, tx, openTx, dbRetriesCount, trace>>

\* the loop condition, with the code after the loop when it is false
LoopCheck ==
    /\ pc = "loop"
    /\ IF attempt < SerializationRetryMaxAttempts
       THEN /\ pc' = IF attempt > 0 THEN "sleep" ELSE "begin"
            /\ UNCHANGED <<result, retErr, warnings>>
       ELSE /\ warnings' = IF attempt = SerializationRetryMaxAttempts
                           THEN Append(warnings, [msg |-> "failed after max attempts",
                                                  attempt |-> attempt, dur |-> 0,
                                                  logger |-> options[1].logger])
                           ELSE warnings
            /\ Return(Nil, ErrSerialization)
    /\ UNCHANGED <<policy, env, outside, options, begins,
                   attempt, ret, err, tx, openTx, dbRetriesCount, trace>>

\* SleepDuration counting the attempts from one
SleepDurationOffByOne(a) == SerializationRetryStartInterval * (a + 1)

\* duration := time.Duration(int(SerializationRetryStartInterval) * attempt)
SleepDuration(a) == SerializationRetryStartInterval * a

\* the "if attempt > 0" block: count, warn, sleep
Backoff ==
    /\ pc = "sleep"
    /\ dbRetriesCount' = dbRetriesCount + 1
    /\ warnings' = Append(warnings, [msg |-> "retrying", attempt |-> attempt,
                                     dur |-> SleepDuration(attempt),
                                     logger |-> options[1].logger])
    /\ trace' = Append(trace, Ev("sleep", attempt, Nil, NilErr, SleepDuration(attempt)))
    /\ pc' = "begin"
    /\ UNCHANGED <<policy, env, outside, options, begins,
                   attempt, ret, err, tx, openTx, result, retErr>>

\* the arguments of BeginTxx: options.ctx and the sql.TxOptions
BeginArgs ==
    [ctx |-> options[1].ctx, isolation |-> options[1].isolationLevel,
     readOnly |-> options[1].readOnly]

\* the context of the call has been cancelled
Cancelled == options # NilPtr /\ options[1].ctx \in cancelled

\* what BeginTxx can return: only the context's error once it is cancelled
BeginOutcomes == IF Cancelled THEN {CtxCanceled} ELSE BeginErrors

\* what Rollback can return: once the context is cancelled the transaction
\* may already have been rolled back for it (ErrTxDone), or this call still
\* comes first and rolls back as usual
RollbackOutcomes ==
    IF Cancelled
    THEN {NilErr, ErrTxDone, Err("rollback", "other")}
    ELSE RollbackErrors

\* what Commit can return: once the context is cancelled it fails
CommitOutcomes == IF Cancelled THEN {CtxCanceled, ErrTxDone} ELSE CommitErrors

\* BeginTxx retrying a begin error that is a serialization conflict
BeginTxxRetriesConflict ==
    /\ pc = "begin"
    /\ \E e \in BeginOutcomes :
        /\ err' = e
        /\ trace' = Append(trace, Ev("begin", attempt, Nil, e, 0))
        /\ begins' = Append(begins, BeginArgs)
        /\ IF e # NilErr
           THEN IF IsSerializationError(e)
                THEN /\ attempt' = attempt + 1
                     /\ pc' = "loop"
                     /\ UNCHANGED <<tx, openTx, result, retErr>>
                ELSE /\ Return(Nil, e)
                     /\ UNCHANGED <<tx, openTx, attempt>>
           ELSE /\ tx' = attempt
                /\ openTx' = openTx \cup {attempt}
                /\ pc' = "fn"
                /\ UNCHANGED <<result, retErr, attempt>>
    /\ UNCHANGED <<policy, env, outside, options,
                   ret, dbRetriesCount, warnings>>

\* tx, err := d.db.BeginTxx(...); if err != nil { return nil, err }
BeginTxx ==
    /\ pc = "begin"
    /\ \E e \in BeginOutcomes :
        /\ err' = e
        /\ trace' = Append(trace, Ev("begin", attempt, Nil, e, 0))
        /\ begins' = Append(begins, BeginArgs)
        /\ IF e # NilErr
           THEN /\ Return(Nil, e)
                /\ UNCHANGED <<tx, openTx>>
           ELSE /\ tx' = attempt
                /\ openTx' = openTx \cup {attempt}
                /\ pc' = "fn"
                /\ UNCHANGED <<result, retErr>>
    /\ UNCHANGED <<policy, env, outside, options,
                   attempt, ret, dbRetriesCount, warnings>>

\* Fn keeping the result of the first invocation instead of the latest
FnKeepsFirstRet ==
    /\ pc = "fn"
    /\ \E o \in FnOutcomesOf(fn) :
        /\ ret' = IF attempt = 0 THEN o[1] ELSE ret
        /\ err' = o[2]
        /\ trace' = Append(trace, Ev("fn", attempt, o[1], o[2], 0))
        /\ pc' = IF o[2] # NilErr THEN "rollback" ELSE "commit"
    /\ UNCHANGED <<policy, env, outside, options, begins,
                   attempt, tx, openTx, result, retErr, dbRetriesCount,
                   warnings>>

\* ret, err = fn(&dbTx{tx: tx, logger: options.logger})
Fn ==
    /\ pc = "fn"
    /\ \E o \in FnOutcomesOf(fn) :
        /\ ret' = o[1]
        /\ err' = o[2]
        /\ trace' = Append(trace, Ev("fn", attempt, o[1], o[2], 0))
        /\ pc' = IF o[2] # NilErr THEN "rollback" ELSE "commit"
    /\ UNCHANGED <<policy, env, outside, options, begins,
                   attempt, tx, openTx, result, retErr, dbRetriesCount,
                   warnings>>

\* Rollback classifying the original error before looking at rollbackErr
RollbackRetryFirst ==
    /\ pc = "rollback"
    /\ \E rollbackErr \in RollbackOutcomes :
        /\ trace' = Append(trace, Ev("rollback", attempt, Nil, rollbackErr, 0))
        /\ openTx' = openTx \ {tx}
        /\ IF IsSerializationError(err)
           THEN /\ attempt' = attempt + 1
                /\ pc' = "loop"
                /\ UNCHANGED <<result, retErr>>
           ELSE IF rollbackErr # NilErr
           THEN /\ Return(Nil, rollbackErr)
                /\ UNCHANGED attempt
           ELSE /\ Return(Nil, err)
                /\ UNCHANGED attempt
    /\ UNCHANGED <<policy, env, outside, options, begins,
                   ret, err, tx, dbRetriesCount, warnings>>

\* Rollback retrying after every error of fn
RollbackRetriesAnyError ==
    /\ pc = "rollback"
    /\ \E rollbackErr \in RollbackOutcomes :
        /\ trace' = Append(trace, Ev("rollback", attempt, Nil, rollbackErr, 0))
        /\ openTx' = openTx \ {tx}
        /\ IF rollbackErr # NilErr
           THEN /\ Return(Nil, rollbackErr)
                /\ UNCHANGED attempt
           ELSE /\ attempt' = attempt + 1
                /\ pc' = "loop"
                /\ UNCHANGED <<result, retErr>>
    /\ UNCHANGED <<policy, env, outside, options, begins,
                   ret, err, tx, dbRetriesCount, warnings>>

\* Rollback giving up with the sentinel at the first conflict
RollbackNoRetry ==
    /\ pc = "rollback"
    /\ \E rollbackErr \in RollbackOutcomes :
        /\ trace' = Append(trace, Ev("rollback", attempt, Nil, rollbackErr, 0))
        /\ openTx' = openTx \ {tx}
        /\ IF rollbackErr # NilErr
           THEN Return(Nil, rollbackErr)
           ELSE IF IsSerializationError(err)
           THEN Return(Nil, ErrSerialization)
           ELSE Return(Nil, err)
    /\ UNCHANGED <<policy, env, outside, options, begins,
                   attempt, ret, err, tx, dbRetriesCount, warnings>>

\* Rollback not retrying a read-only transaction
RollbackNoRetryReadOnly ==
    /\ pc = "rollback"
    /\ \E rollbackErr \in RollbackOutcomes :
        /\ trace' = Append(trace, Ev("rollback", attempt, Nil, rollbackErr, 0))
        /\ openTx' = openTx \ {tx}
        /\ IF rollbackErr # NilErr
           THEN /\ Return(Nil, rollbackErr)
                /\ UNCHANGED attempt
           ELSE IF IsSerializationError(err) /\ ~options[1].readOnly
           THEN /\ attempt' = attempt + 1
                /\ pc' = "loop"
                /\ UNCHANGED <<result, retErr>>
           ELSE /\ Return(Nil, err)
                /\ UNCHANGED attempt
    /\ UNCHANGED <<policy, env, outside, options, begins,
                   ret, err, tx, dbRetriesCount, warnings>>

\* the "if err != nil" branch: roll back, then retry or return
Rollback ==
    /\ pc = "rollback"
    /\ \E rollbackErr \in RollbackOutcomes :
        /\ trace' = Append(trace, Ev("rollback", attempt, Nil, rollbackErr, 0))
        /\ openTx' = openTx \ {tx}
        /\ IF rollbackErr # NilErr
           THEN /\ Return(Nil, rollbackErr)
                /\ UNCHANGED attempt
           ELSE IF IsSerializationError(err)
           THEN /\ attempt' = attempt + 1
                /\ pc' = "loop"
                /\ UNCHANGED <<result, retErr>>
           ELSE /\ Return(Nil, err)
                /\ UNCHANGED attempt
    /\ UNCHANGED <<policy, env, outside, options, begins,
                   ret, err, tx, dbRetriesCount, warnings>>

\* Commit returning the value of fn together with a commit error
CommitReturnsRetOnError ==
    /\ pc = "commit"
    /\ \E e \in CommitOutcomes :
        /\ err' = e
        /\ trace' = Append(trace, Ev("commit", attempt, Nil, e, 0))
        /\ openTx' = openTx \ {tx}
        /\ IF e # NilErr /\ IsSerializationError(e)
           THEN /\ attempt' = attempt + 1
                /\ pc' = "loop"
                /\ UNCHANGED <<result, retErr>>
           ELSE /\ Return(ret, e)
                /\ UNCHANGED attempt
    /\ UNCHANGED <<policy, env, outside, options, begins,
                   ret, tx, dbRetriesCount, warnings>>

\* Commit returning every commit error without classifying it
CommitNeverRetries ==
    /\ pc = "commit"
    /\ \E e \in CommitOutcomes :
        /\ err' = e
        /\ trace' = Append(trace, Ev("commit", attempt, Nil, e, 0))
        /\ openTx' = openTx \ {tx}
        /\ IF e # NilErr
           THEN Return(Nil, e)
           ELSE Return(ret, NilErr)
    /\ UNCHANGED <<policy, env, outside, options, begins,
                   attempt, ret, tx, dbRetriesCount, warnings>>

\* Commit going round the loop again after a commit that succeeded
CommitThenRetry ==
    /\ pc = "commit"
    /\ \E e \in CommitOutcomes :
        /\ err' = e
        /\ trace' = Append(trace, Ev("commit", attempt, Nil, e, 0))
        /\ openTx' = openTx \ {tx}
        /\ IF e # NilErr /\ ~IsSerializationError(e)
           THEN /\ Return(Nil, e)
                /\ UNCHANGED attempt
           ELSE /\ attempt' = attempt + 1
                /\ pc' = "loop"
                /\ UNCHANGED <<result, retErr>>
    /\ UNCHANGED <<policy, env, outside, options, begins,
                   ret, tx, dbRetriesCount, warnings>>

\* the "else" branch: commit, then retry or return
Commit ==
    /\ pc = "commit"
    /\ \E e \in CommitOutcomes :
        /\ err' = e
        /\ trace' = Append(trace, Ev("commit", attempt, Nil, e, 0))
        /\ openTx' = openTx \ {tx}
        /\ IF e # NilErr
           THEN IF IsSerializationError(e)
                THEN /\ attempt' = attempt + 1
                     /\ pc' = "loop"
                     /\ UNCHANGED <<result, retErr>>
                ELSE /\ Return(Nil, e)
                     /\ UNCHANGED attempt
           ELSE /\ Return(ret, NilErr)
                /\ UNCHANGED attempt
    /\ UNCHANGED <<policy, env, outside, options, begins,
                   ret, tx, dbRetriesCount, warnings>>

\* the caller cancels context c
Cancel(c) ==
    /\ c \notin cancelled
    /\ cancelled' = cancelled \cup {c}
    /\ cancelledAt' =
          IF options # NilPtr /\ options[1].ctx = c
          THEN Ptr([pc |-> pc, attempt |-> attempt, len |-> Len(trace)])
          ELSE cancelledAt
    /\ UNCHANGED <<policy, facades, d, opts, fn, outside, options, begins, pc,
                   attempt, ret, err, tx, openTx, result, retErr,
                   dbRetriesCount, warnings, trace>>

Next ==
    \/ Transact
    \/ LoopCheck
    \/ Backoff
    \/ BeginTxx
    \/ Fn
    \/ Rollback
    \/ Commit

Spec == Init /\ [][Next]_vars

\* the steps of a call that has been made: the loop condition, and the
\* return of each sleep, begin, fn, rollback and commit it invokes
Steps ==
    \/ LoopCheck
    \/ Backoff
    \/ BeginTxx
    \/ Fn
    \/ Rollback
    \/ Commit

\* one call on whose thread every invoked operation returns
SpecLive == Init /\ [][Next]_vars /\ WF_vars(Steps)

\* retry budgets explored together with the options
OptionBudgets == {1, 2}

\* a call of Transact(fn, opts...) on a facade, derived or not
InitOptions ==
    /\ SerializationRetryMaxAttempts \in OptionBudgets
    /\ SerializationRetryStartInterval = 2
    /\ CallIdle
    /\ facades = <<NewSqlxDatabase, DerivedFacade("ctx1")>>
    /\ d \in DOMAIN facades
    /\ opts \in OptSeqs
    /\ fn = "any"
    /\ FacadeIdle
    /\ PoolIdle
    /\ MetaIdle
    /\ BlobIdle

\* the call, for every list of options
SpecOptions == InitOptions /\ [][Next]_vars

\* a call of Transact(fn) on a facade derived with WithContext("ctx1")
InitCancel ==
    /\ SerializationRetryMaxAttempts \in 1..MaxAttemptsBound
    /\ SerializationRetryStartInterval \in BackoffUnits
    /\ CallIdle
    /\ facades = <<NewSqlxDatabase, DerivedFacade("ctx1")>>
    /\ d = 2
    /\ opts = <<>>
    /\ fn = "any"
    /\ FacadeIdle
    /\ PoolIdle
    /\ MetaIdle
    /\ BlobIdle

NextCancel ==
    \/ Next
    \/ \E c \in Contexts : Cancel(c)

\* the call, with its caller cancelling contexts at any time
SpecCancel == InitCancel /\ [][NextCancel]_vars

(* ---------------------------------------------------------------------- *)
(* Reading the history                                                    *)
(* ---------------------------------------------------------------------- *)
\* positions of trace holding a call of kind op
Calls(op) == { i \in DOMAIN trace : trace[i].op = op }

Count(op) == Cardinality(Calls(op))

\* positions of trace belonging to attempt a
OfAttempt(a) == { i \in DOMAIN trace : trace[i].attempt = a }

\* the last call made
Last == trace[Len(trace)]

\* every call of kind op so far returned a nil error
AllOk(op) == \A i \in Calls(op) : trace[i].err = NilErr

\* sum of the durations of the calls at the positions in S
RECURSIVE SumDur(_)
SumDur(S) ==
    IF S = {} THEN 0
    ELSE LET i == CHOOSE j \in S : TRUE
         IN trace[i].dur + SumDur(S \ {i})

\* total time slept by the call so far
TotalSlept == SumDur(Calls("sleep"))

\* commits and rollbacks of the handle begun in attempt a
Terminations(a) ==
    { i \in DOMAIN trace : trace[i].op \in {"commit", "rollback"} /\ trace[i].attempt = a }

\* attempt a ended in a classified conflict, of fn (rolled back) or of commit
EndedInConflict(a) ==
    \E i \in Calls("fn") :
        /\ trace[i].attempt = a
        /\ i + 1 \in DOMAIN trace
        /\ \/ /\ IsSerializationError(trace[i].err)
              /\ trace[i + 1].op = "rollback"
              /\ trace[i + 1].err = NilErr
           \/ /\ trace[i].err = NilErr
              /\ trace[i + 1].op = "commit"
              /\ IsSerializationError(trace[i + 1].err)

\* the call has returned after maxAttempts attempts that all ended in a conflict
Exhausted ==
    /\ pc = "done"
    /\ attempt = SerializationRetryMaxAttempts
    /\ Count("begin") = SerializationRetryMaxAttempts
    /\ \A a \in 0..(SerializationRetryMaxAttempts - 1) : EndedInConflict(a)

\* the call has returned the error of its last invocation of fn, rolled back
ReturnedErrorOfFn ==
    /\ pc = "done"
    /\ Len(trace) >= 2
    /\ Last.op = "rollback"
    /\ Last.err = NilErr
    /\ trace[Len(trace) - 1].op = "fn"
    /\ trace[Len(trace) - 1].err = retErr

(* ---------------------------------------------------------------------- *)
(* Transact as a function of the outcomes of its calls                    *)
(* ---------------------------------------------------------------------- *)
\* the state of a call
CallState(p, a, r, e, res, rerr, o) ==
    [pc |-> p, attempt |-> a, ret |-> r, err |-> e, result |-> res,
     retErr |-> rerr, open |-> o]

\* the loop condition: the next call made with attempt = a, or the return
\* of ErrSerialization
AtLoop(s, a, max) ==
    IF a < max
    THEN [s EXCEPT !.attempt = a, !.open = FALSE,
                   !.pc = IF a > 0 THEN "sleep" ELSE "begin"]
    ELSE [s EXCEPT !.attempt = a, !.open = FALSE, !.pc = "done",
                   !.result = Nil, !.retErr = ErrSerialization]

\* "return r, e" in state s
Returned(s, r, e) ==
    [s EXCEPT !.pc = "done", !.open = FALSE, !.result = r, !.retErr = e]

\* the call when Transact is entered
StartState(max) ==
    AtLoop(CallState("loop", 0, Nil, NilErr, Nil, NilErr, FALSE), 0, max)

\* the state of the call after the call ev it was about to make returned
TransactStep(s, ev, max) ==
    CASE ev.op = "sleep" -> [s EXCEPT !.pc = "begin"]
      [] ev.op = "begin" ->
           IF ev.err # NilErr
           THEN Returned([s EXCEPT !.err = ev.err], Nil, ev.err)
           ELSE [s EXCEPT !.err = ev.err, !.pc = "fn", !.open = TRUE]
      [] ev.op = "fn" ->
           [s EXCEPT !.ret = ev.ret, !.err = ev.err,
                     !.pc = IF ev.err # NilErr THEN "rollback" ELSE "commit"]
      [] ev.op = "rollback" ->
           IF ev.err # NilErr THEN Returned(s, Nil, ev.err)
           ELSE IF IsSerializationError(s.err) THEN AtLoop(s, s.attempt + 1, max)
           ELSE Returned(s, Nil, s.err)
      [] ev.op = "commit" ->
           IF ev.err # NilErr
           THEN IF IsSerializationError(ev.err)
                THEN AtLoop([s EXCEPT !.err = ev.err], s.attempt + 1, max)
                ELSE Returned([s EXCEPT !.err = ev.err], Nil, ev.err)
           ELSE Returned([s EXCEPT !.err = ev.err], s.ret, NilErr)

\* the state of a call whose calls so far are those of t
RECURSIVE Replay(_, _)
Replay(t, max) ==
    IF t = <<>> THEN StartState(max)
    ELSE TransactStep(Replay(SubSeq(t, 1, Len(t) - 1), max), t[Len(t)], max)

\* positions of opts holding the option function name
Touching(name) == { i \in DOMAIN opts : opts[i].opt = name }

\* the last option function name in opts
LastOpt(name) ==
    opts[CHOOSE i \in Touching(name) : \A j \in Touching(name) : j <= i]

(* ---------------------------------------------------------------------- *)
(* The facade: WithContext, Get, Queryx, Exec                             *)
(* ---------------------------------------------------------------------- *)
\* d.getLogger()
getLogger(f) ==
    IF f.queryOptions # NilPtr THEN f.queryOptions[1].logger ELSE DefaultLogger

\* d.getContext()
getContext(f) ==
    IF f.queryOptions # NilPtr THEN f.queryOptions[1].ctx ELSE Background

\* query texts, elapsed times and errors explored
Queries == {"q1", "q2"}

Durations == {SlowThreshold - 1, SlowThreshold, SlowThreshold + 1}

QueryErrors == {NilErr, Err("query", "other")}

\* what res.RowsAffected() can return
RowsAffected == {<<1, NilErr>>, <<0, Err("rows", "other")>>}

\* reportFinish logging from the threshold on
reportFinishAtThreshold(f, e, fields, duration) ==
    IF duration >= SlowThreshold
    THEN <<[logger |-> getLogger(f), msg |-> "database done", fields |-> fields,
            duration |-> duration, hasError |-> e # NilErr, error |-> e]>>
    ELSE <<>>

\* d.reportFinish(&err, fields, start): the entries it logs, when the call
\* returned e and duration has passed since start
reportFinish(f, e, fields, duration) ==
    IF duration > SlowThreshold
    THEN <<[logger |-> getLogger(f), msg |-> "database done", fields |-> fields,
            duration |-> duration, hasError |-> e # NilErr, error |-> e]>>
    ELSE <<>>

\* logging.Fields{"type": kind, "query": query, "args": args}
Fields(kind, query, args) == [type |-> kind, query |-> query, args |-> args]

\* a call of kind on facade i has returned e after duration: the deferred
\* reportFinish runs
Finished(i, kind, query, args, e, duration) ==
    LET logged == reportFinish(facades[i], e, Fields(kind, query, args), duration)
    IN /\ Len(logged) > 0 => doneLogs < MaxDoneLogs
       /\ doneLogs' = doneLogs + Len(logged)
       /\ lastCall' = Ptr([kind |-> kind, facade |-> i, query |-> query,
                           args |-> args, ctx |-> getContext(facades[i]),
                           err |-> e, dur |-> duration, logged |-> logged,
                           logsBefore |-> doneLogs])

\* what the direct queries leave alone
queryFrame ==
    <<policy, env, call, dbRetriesCount, created, poolVars, metaVars, blobVars>>

\* WithContext changing its receiver and returning it
DatabaseWithContextInPlace(i, ctx) ==
    /\ Len(facades) < MaxFacades
    /\ facades' = Append([facades EXCEPT ![i] = DerivedFacade(ctx)],
                          DerivedFacade(ctx))
    /\ created' = Append(created, ctx)
    /\ UNCHANGED <<policy, d, opts, fn, cancelled, cancelledAt, call,
                   dbRetriesCount, doneLogs, lastCall, poolVars, metaVars,
                   blobVars>>

\* facades[i].WithContext(ctx)
DatabaseWithContext(i, ctx) ==
    /\ Len(facades) < MaxFacades
    /\ facades' = Append(facades,
          [db |-> facades[i].db,
           queryOptions |-> Ptr([logger |-> Logger("default", ctx), ctx |-> ctx])])
    /\ created' = Append(created, ctx)
    /\ UNCHANGED <<policy, d, opts, fn, cancelled, cancelledAt, call,
                   dbRetriesCount, doneLogs, lastCall, poolVars, metaVars,
                   blobVars>>

\* facades[i].Get(dest, query, args...)
Get(i) ==
    /\ \E query \in Queries, e \in QueryErrors, duration \in Durations :
          Finished(i, "get", query, <<"a1">>, e, duration)
    /\ UNCHANGED queryFrame

\* facades[i].Queryx(query, args...)
Queryx(i) ==
    /\ \E query \in Queries, e \in QueryErrors, duration \in Durations :
          Finished(i, "start query", query, <<"a1">>, e, duration)
    /\ UNCHANGED queryFrame

\* facades[i].Exec(query, args...): the error is that of ExecContext, or
\* else that of RowsAffected
Exec(i) ==
    /\ \E query \in Queries, e \in QueryErrors, rows \in RowsAffected,
          duration \in Durations :
          Finished(i, "exec", query, <<"a1">>,
                   IF e # NilErr THEN e ELSE rows[2], duration)
    /\ UNCHANGED queryFrame

\* one facade, on which or on whose descendants Transact is called once
InitFacade ==
    /\ SerializationRetryMaxAttempts = 1
    /\ SerializationRetryStartInterval = 2
    /\ CallIdle
    /\ facades = <<NewSqlxDatabase>>
    /\ d \in 1..MaxFacades
    /\ opts = <<>>
    /\ fn = "any"
    /\ created = <<Nil>>
    /\ doneLogs = 0
    /\ lastCall = NilPtr
    /\ PoolIdle
    /\ MetaIdle
    /\ BlobIdle

NextFacade ==
    \/ \E i \in DOMAIN facades, ctx \in Contexts : DatabaseWithContext(i, ctx)
    \/ \E i \in DOMAIN facades : Get(i)
    \/ \E i \in DOMAIN facades : Queryx(i)
    \/ \E i \in DOMAIN facades : Exec(i)
    \/ Transact

\* facades deriving facades, direct queries, and the start of a Transact
SpecFacade == InitFacade /\ [][NextFacade]_vars

\* the context and the logger of facade i when it was created
ContextAtCreation(i) == IF created[i] = Nil THEN Background ELSE created[i]

LoggerAtCreation(i) ==
    IF created[i] = Nil THEN DefaultLogger ELSE Logger("default", created[i])

(* ---------------------------------------------------------------------- *)
(* Metadata                                                               *)
(* ---------------------------------------------------------------------- *)
\* metadata[key] = value
Put(m, key, value) ==
    [k \in DOMAIN m \cup {key} |-> IF k = key THEN value ELSE m[k]]

\* for k, v := range settings { metadata["postgresql_setting_"+k] = v }
RECURSIVE Merge(_, _, _)
Merge(m, settings, keys) ==
    IF keys = {} THEN m
    ELSE LET k == CHOOSE x \in keys : TRUE
         IN Merge(Put(m, "postgresql_setting_" \o k, settings[k]), settings,
                  keys \ {k})

\* d.Transact(f, os...) is called: a new call
CallTransact(f, os) ==
    /\ fn' = f
    /\ opts' = os
    /\ pc' = "idle"
    /\ attempt' = 0
    /\ ret' = Nil
    /\ err' = NilErr
    /\ tx' = Nil
    /\ openTx' = {}
    /\ result' = Nil
    /\ retErr' = NilErr
    /\ trace' = <<>>
    /\ options' = NilPtr
    /\ begins' = <<>>

\* what the steps of Metadata leave alone
metaFrame ==
    <<policy, facades, d, cancelled, cancelledAt, dbRetriesCount, warnings,
      facadeVars, poolVars, blobVars>>

\* the Transact called by Metadata has returned
Returns == [fn |-> fn, result |-> result, retErr |-> retErr]

\* Metadata is called: metadata := make(map[string]string); d.getVersion()
Metadata ==
    /\ mpc = "idle"
    /\ pc = "idle"
    /\ mpc' = "version"
    /\ metadata' = <<>>
    /\ CallTransact("version", <<ReadOnly, WithLogger(DummyLogger)>>)
    /\ UNCHANGED <<metaFrame, mret, subcalls>>

\* GotVersion giving up when getVersion fails
GotVersionOrFail ==
    /\ mpc = "version"
    /\ pc = "done"
    /\ subcalls' = Append(subcalls, Returns)
    /\ IF retErr = NilErr
       THEN /\ metadata' = Put(metadata, "postgresql_version", result)
            /\ mpc' = "aurora"
            /\ CallTransact("aurora", <<ReadOnly, WithLogger(DummyLogger)>>)
            /\ UNCHANGED mret
       ELSE /\ mpc' = "done"
            /\ mret' = Ptr([metadata |-> metadata, err |-> retErr])
            /\ UNCHANGED <<metadata, call, fn, opts>>
    /\ UNCHANGED metaFrame

\* getVersion has returned: the version is stored when there is no error;
\* d.getAuroraVersion()
GotVersion ==
    /\ mpc = "version"
    /\ pc = "done"
    /\ subcalls' = Append(subcalls, Returns)
    /\ metadata' = IF retErr = NilErr
                    THEN Put(metadata, "postgresql_version", result)
                    ELSE metadata
    /\ mpc' = "aurora"
    /\ CallTransact("aurora", <<ReadOnly, WithLogger(DummyLogger)>>)
    /\ UNCHANGED <<metaFrame, mret>>

\* getAuroraVersion has returned: the same; then the Transact for pg_settings
GotAuroraVersion ==
    /\ mpc = "aurora"
    /\ pc = "done"
    /\ subcalls' = Append(subcalls, Returns)
    /\ metadata' = IF retErr = NilErr
                    THEN Put(metadata, "postgresql_aurora_version", result)
                    ELSE metadata
    /\ mpc' = "settings"
    /\ CallTransact("settings", <<ReadOnly>>)
    /\ UNCHANGED <<metaFrame, mret>>

\* the Transact for pg_settings has returned: Metadata returns metadata, with
\* the settings under their prefixed keys when there is no error
GotSettings ==
    /\ mpc = "settings"
    /\ pc = "done"
    /\ subcalls' = Append(subcalls, Returns)
    /\ metadata' = IF retErr = NilErr
                    THEN Merge(metadata, Settings(result), DOMAIN Settings(result))
                    ELSE metadata
    /\ mpc' = "done"
    /\ mret' = Ptr([metadata |-> metadata', err |-> NilErr])
    /\ UNCHANGED <<metaFrame, call, fn, opts>>

\* retry budgets explored with Metadata
MetadataBudgets == {1, 2}

InitMetadata ==
    /\ SerializationRetryMaxAttempts \in MetadataBudgets
    /\ SerializationRetryStartInterval = 2
    /\ CallIdle
    /\ facades = <<NewSqlxDatabase>>
    /\ d = 1
    /\ opts = <<>>
    /\ fn = "any"
    /\ FacadeIdle
    /\ PoolIdle
    /\ MetaIdle
    /\ BlobIdle

NextMetadata ==
    \/ Metadata
    \/ GotVersion
    \/ GotAuroraVersion
    \/ GotSettings
    \/ Next

\* one call of Metadata
SpecMetadata == InitMetadata /\ [][NextMetadata]_vars

\* the keys and values Metadata must return for what one Transact returned
KeysOf(sub) ==
    IF sub.retErr # NilErr THEN <<>>
    ELSE CASE sub.fn = "version" -> Put(<<>>, "postgresql_version", sub.result)
           [] sub.fn = "aurora" -> Put(<<>>, "postgresql_aurora_version", sub.result)
           [] sub.fn = "settings" ->
                [k \in { "postgresql_setting_" \o x : x \in DOMAIN Settings(sub.result) } |->
                    Settings(sub.result)[CHOOSE x \in DOMAIN Settings(sub.result) :
                                            k = "postgresql_setting_" \o x]]

(* ---------------------------------------------------------------------- *)
(* Concurrent calls of Transact on one pool                               *)
(* ---------------------------------------------------------------------- *)
Callers == 1..NumCallers

\* retry budgets and pool sizes explored with concurrent callers
PoolBudgets == {1, 2}

PoolSizes == {1, 2}

\* outcomes explored with concurrent callers
PoolBeginErrors == {NilErr, Err("begin", "other")}

PoolFnOutcomes ==
    {<<"v1", NilErr>>, <<Nil, Err("fn", "40001")>>, <<Nil, Err("fn", "other")>>}

PoolRollbackErrors == {NilErr, Err("rollback", "other")}

PoolCommitErrors == {NilErr, Err("commit", "40001"), Err("commit", "other")}

\* a caller that has not called Transact yet
IdleCaller ==
    [state |-> CallState("idle", 0, Nil, NilErr, Nil, NilErr, FALSE),
     trace |-> <<>>]

InitPool ==
    /\ SerializationRetryMaxAttempts \in PoolBudgets
    /\ SerializationRetryStartInterval = 2
    /\ CallIdle
    /\ facades = <<NewSqlxDatabase>>
    /\ d = 1
    /\ opts = <<>>
    /\ fn = "any"
    /\ FacadeIdle
    /\ MetaIdle
    /\ BlobIdle
    /\ callers = [c \in Callers |-> IdleCaller]
    /\ inUse = {}
    /\ poolSize \in PoolSizes

\* what the steps of the concurrent callers leave alone: all but callers,
\* inUse, dbRetriesCount and warnings
poolFrame ==
    <<policy, env, pc, attempt, ret, err, tx, openTx, result, retErr, trace,
      options, begins, facadeVars, metaVars, blobVars, poolSize>>

\* options.logger of the callers, which pass no option
PoolLogger == ApplyOpts(<<>>, getTxOptions(facades[d])).logger

\* the warning written after the loop when it ends with attempt = a
ExhaustionWarnings(a, max) ==
    IF a >= max /\ a = max
    THEN <<[msg |-> "failed after max attempts", attempt |-> a, dur |-> 0,
            logger |-> PoolLogger]>>
    ELSE <<>>

\* the warnings written by the step of a call in state s whose call ev
\* returned: that of the backoff, and that of the exhaustion when the step
\* goes round the loop
StepWarnings(s, ev, max) ==
    CASE ev.op = "sleep" ->
           <<[msg |-> "retrying", attempt |-> s.attempt, dur |-> ev.dur,
              logger |-> PoolLogger]>>
      [] ev.op = "rollback" /\ ev.err = NilErr /\ IsSerializationError(s.err) ->
           ExhaustionWarnings(s.attempt + 1, max)
      [] ev.op = "commit" /\ IsSerializationError(ev.err) ->
           ExhaustionWarnings(s.attempt + 1, max)
      [] OTHER -> <<>>

\* caller c made the call ev and got its outcome
Made(c, ev) ==
    /\ callers' = [callers EXCEPT
          ![c] = [state |-> TransactStep(callers[c].state, ev,
                                         SerializationRetryMaxAttempts),
                  trace |-> Append(callers[c].trace, ev)]]
    /\ warnings' = warnings \o StepWarnings(callers[c].state, ev,
                                             SerializationRetryMaxAttempts)

\* caller c calls Transact
PTransact(c) ==
    /\ callers[c].state.pc = "idle"
    /\ callers' = [callers EXCEPT
          ![c].state = StartState(SerializationRetryMaxAttempts)]
    /\ warnings' = warnings \o ExhaustionWarnings(0, SerializationRetryMaxAttempts)
    /\ UNCHANGED <<poolFrame, inUse, dbRetriesCount>>

\* caller c backs off
PBackoff(c) ==
    /\ callers[c].state.pc = "sleep"
    /\ dbRetriesCount' = dbRetriesCount + 1
    /\ Made(c, Ev("sleep", callers[c].state.attempt, Nil, NilErr,
                   SleepDuration(callers[c].state.attempt)))
    /\ UNCHANGED <<poolFrame, inUse>>

\* caller c begins a transaction: it takes a free connection of the pool, and
\* waits for one when there is none
PBeginTxx(c) ==
    /\ callers[c].state.pc = "begin"
    /\ \E e \in PoolBeginErrors :
        /\ Made(c, Ev("begin", callers[c].state.attempt, Nil, e, 0))
        /\ IF e = NilErr
           THEN /\ Cardinality(inUse) < poolSize
                /\ inUse' = inUse \cup {<<c, callers[c].state.attempt>>}
           ELSE UNCHANGED inUse
    /\ UNCHANGED <<poolFrame, dbRetriesCount>>

\* caller c runs fn
PFn(c) ==
    /\ callers[c].state.pc = "fn"
    /\ \E o \in PoolFnOutcomes :
        Made(c, Ev("fn", callers[c].state.attempt, o[1], o[2], 0))
    /\ UNCHANGED <<poolFrame, inUse, dbRetriesCount>>

\* PRollback giving the connection back only when Transact returns
PRollbackKeepsConn(c) ==
    /\ callers[c].state.pc = "rollback"
    /\ \E e \in PoolRollbackErrors :
        /\ Made(c, Ev("rollback", callers[c].state.attempt, Nil, e, 0))
        /\ inUse' = IF e = NilErr /\ IsSerializationError(callers[c].state.err)
                     THEN inUse
                     ELSE { h \in inUse : h[1] # c }
    /\ UNCHANGED <<poolFrame, dbRetriesCount>>

\* caller c rolls back: the connection goes back to the pool
PRollback(c) ==
    /\ callers[c].state.pc = "rollback"
    /\ \E e \in PoolRollbackErrors :
        /\ Made(c, Ev("rollback", callers[c].state.attempt, Nil, e, 0))
        /\ inUse' = inUse \ {<<c, callers[c].state.attempt>>}
    /\ UNCHANGED <<poolFrame, dbRetriesCount>>

\* caller c commits: the connection goes back to the pool
PCommit(c) ==
    /\ callers[c].state.pc = "commit"
    /\ \E e \in PoolCommitErrors :
        /\ Made(c, Ev("commit", callers[c].state.attempt, Nil, e, 0))
        /\ inUse' = inUse \ {<<c, callers[c].state.attempt>>}
    /\ UNCHANGED <<poolFrame, dbRetriesCount>>

NextPool ==
    \E c \in Callers :
        \/ PTransact(c)
        \/ PBackoff(c)
        \/ PBeginTxx(c)
        \/ PFn(c)
        \/ PRollback(c)
        \/ PCommit(c)

SpecPool == InitPool /\ [][NextPool]_vars

\* connections held by caller c
HeldBy(c) == { h \in inUse : h[1] = c }

(* ---------------------------------------------------------------------- *)
(* WriteBlob (src/unnamed/part_000)                                       *)
(* ---------------------------------------------------------------------- *)
Writers == 1..NumWriters

Repos == {"repo1", "repo2"}

Bodies == {"a", "b"}

\* uuid.New(): a value no other call draws; UUIDs[1] was drawn by an earlier
\* call, writer w draws UUIDs[w + 1]
UUIDs == <<"u0", "u1", "u2", "u3", "u4", "u5">>

\* hex.EncodeToString(b)
EncodeToString(b) == "hex(" \o b \o ")"

\* hashReader.Sha256.Sum(nil) after body was read
Sha256(body) == "sha256(" \o body \o ")"

PutErrors == {NilErr, Err("put", "failed")}

DedupErrors == {NilErr, Err("dedup", "failed")}

RemoveErrors == {NilErr, Err("remove", "failed")}

\* a call of WriteBlob not yet started
IdleWriter(repoId, body) ==
    [repoId |-> repoId, body |-> body, pc |-> "idle", objName |-> "",
     existingName |-> "", ret |-> "", err |-> NilErr]

\* the adapter and the index before the calls: empty, or holding the object
\* and the entry of an earlier WriteBlob of body "a" to "repo1"
Earlier ==
    [objects |-> {EncodeToString(UUIDs[1])},
     dedup |-> [k \in {<<"repo1", EncodeToString(Sha256("a"))>>} |->
                   EncodeToString(UUIDs[1])]]

\* what the steps of WriteBlob leave alone
blobFrame ==
    <<policy, env, call, dbRetriesCount, facadeVars, poolVars, metaVars>>

\* writer w returns (objName, err)
WReturn(w, fields, objName, e) ==
    writers' = [writers EXCEPT ![w] =
                   [fields EXCEPT !.pc = "done", !.ret = objName, !.err = e]]

\* objName := hex(uuid.New()); err := adapter.Put(bucketName, objName, ...)
AdapterPut(w) ==
    /\ writers[w].pc = "idle"
    /\ LET objName == EncodeToString(UUIDs[w + 1])
           named == [writers[w] EXCEPT !.objName = objName]
       IN \E e \in PutErrors :
            IF e # NilErr
            THEN /\ WReturn(w, named, "", e)
                 /\ UNCHANGED objects
            ELSE /\ objects' = objects \cup {objName}
                 /\ writers' = [writers EXCEPT ![w] = [named EXCEPT !.pc = "dedup"]]
    /\ UNCHANGED <<blobFrame, dedup, removes>>

\* existingName, err := index.CreateDedupEntryIfNone(repoId, dedupId, objName):
\* registers objName unless the pair already has an entry, and returns the
\* registered name, in one step; then the test existingName != objName
CreateDedupEntryIfNone(w) ==
    /\ writers[w].pc = "dedup"
    /\ LET me == writers[w]
           key == <<me.repoId, EncodeToString(Sha256(me.body))>>
           existingName == IF key \in DOMAIN dedup THEN dedup[key] ELSE me.objName
           got == [me EXCEPT !.existingName = existingName]
       IN \E e \in DedupErrors :
            IF e # NilErr
            THEN /\ WReturn(w, me, "", e)
                 /\ UNCHANGED dedup
            ELSE /\ dedup' = [k \in DOMAIN dedup \cup {key} |->
                                 IF k = key THEN existingName ELSE dedup[k]]
                 /\ IF existingName # me.objName
                    THEN writers' = [writers EXCEPT ![w] = [got EXCEPT !.pc = "remove"]]
                    ELSE WReturn(w, got, me.objName, NilErr)
    /\ UNCHANGED <<blobFrame, objects, removes>>

\* AdapterRemove removing the object the index named
AdapterRemoveExisting(w) ==
    /\ writers[w].pc = "remove"
    /\ LET me == writers[w]
       IN \E e \in RemoveErrors :
            /\ removes' = removes \cup
                   {[writer |-> w, objName |-> me.existingName, err |-> e]}
            /\ objects' = IF e = NilErr THEN objects \ {me.existingName} ELSE objects
            /\ WReturn(w, me, me.existingName, NilErr)
    /\ UNCHANGED <<blobFrame, dedup>>

\* adapter.Remove(bucketName, objName), its error dropped;
\* objName = existingName; return
AdapterRemove(w) ==
    /\ writers[w].pc = "remove"
    /\ LET me == writers[w]
       IN \E e \in RemoveErrors :
            /\ removes' = removes \cup
                   {[writer |-> w, objName |-> me.objName, err |-> e]}
            /\ objects' = IF e = NilErr THEN objects \ {me.objName} ELSE objects
            /\ WReturn(w, me, me.existingName, NilErr)
    /\ UNCHANGED <<blobFrame, dedup>>

InitBlob ==
    /\ SerializationRetryMaxAttempts = 1
    /\ SerializationRetryStartInterval = 2
    /\ CallIdle
    /\ facades = <<NewSqlxDatabase>>
    /\ d = 1
    /\ opts = <<>>
    /\ fn = "any"
    /\ FacadeIdle
    /\ PoolIdle
    /\ MetaIdle
    /\ writers \in [Writers -> { IdleWriter(r, b) : r \in Repos, b \in Bodies }]
    /\ removes = {}
    /\ \/ objects = {} /\ dedup = <<>>
       \/ objects = Earlier.objects /\ dedup = Earlier.dedup

NextBlob ==
    \E w \in Writers :
        \/ AdapterPut(w)
        \/ CreateDedupEntryIfNone(w)
        \/ AdapterRemove(w)

\* concurrent calls of WriteBlob on one adapter and one index
SpecBlob == InitBlob /\ [][NextBlob]_vars

\* writer w has returned without error
Succeeded(w) == writers[w].pc = "done" /\ writers[w].err = NilErr

\* v and w upload the same content to the same repository
SameBlob(v, w) ==
    writers[v].repoId = writers[w].repoId /\ writers[v].body = writers[w].body

\* the calls of adapter.Remove made by writer w
RemovesOf(w) == { r \in removes : r.writer = w }

\* writer w has returned the name of an object that is not its own
Lost(w) == Succeeded(w) /\ writers[w].ret # writers[w].objName

\* what ret can hold: the value fn returned, for each TxFunc modelled
FnValues == UNION { { o[1] : o \in FnOutcomesOf(f) } :
                       f \in {"any", "version", "aurora", "settings"} }

TypeOK ==
    /\ pc \in {"idle", "loop", "sleep", "begin", "fn", "rollback", "commit", "done"}
    /\ attempt \in 0..SerializationRetryMaxAttempts
    /\ ret \in FnValues \cup {Nil}
    /\ result \in FnValues \cup {Nil}
    /\ \A c \in DOMAIN callers : callers[c].state.ret \in FnValues \cup {Nil}
    /\ openTx \subseteq 0..SerializationRetryMaxAttempts

(* ---------------------------------------------------------------------- *)
(* Properties                                                             *)
(* ---------------------------------------------------------------------- *)
\* fn failed with a classified conflict on every attempt of a finished call,
\* and every begin and rollback succeeded
AlwaysConflicted ==
    /\ pc = "done"
    /\ AllOk("begin")
    /\ AllOk("rollback")
    /\ \A i \in Calls("fn") : IsSerializationError(trace[i].err)

\* C1: with maxAttempts = N, a call whose fn conflicts on every attempt makes
\* exactly N begins, N invocations of fn, N rollbacks and no commit, and
\* returns (nil, ErrSerialization), not the last driver error; with N = 1 it
\* never sleeps.
C1_ExhaustedOnConflicts ==
    AlwaysConflicted =>
        /\ Count("begin") = SerializationRetryMaxAttempts
        /\ Count("fn") = SerializationRetryMaxAttempts
        /\ Count("rollback") = SerializationRetryMaxAttempts
        /\ Count("commit") = 0
        /\ result = Nil
        /\ retErr = ErrSerialization
        /\ \A i \in DOMAIN trace : retErr # trace[i].err
        /\ (SerializationRetryMaxAttempts = 1 => Count("sleep") = 0)

\* a call that conflicted three times out of a budget of three has returned
C1_Witness ==
    /\ AlwaysConflicted
    /\ SerializationRetryMaxAttempts = 3
    /\ Count("rollback") = 3

\* a finished call whose fn conflicted on every attempt but the last, where it
\* succeeded, with every begin, rollback and commit succeeding
ConflictsThenSuccess ==
    /\ pc = "done"
    /\ AllOk("begin")
    /\ AllOk("rollback")
    /\ AllOk("commit")
    /\ Calls("fn") # {}
    /\ \A i \in Calls("fn") :
          IF trace[i].attempt = Count("fn") - 1
          THEN trace[i].err = NilErr
          ELSE IsSerializationError(trace[i].err)

\* C2: if fn conflicts on attempts 1..k-1 and succeeds on attempt k, Transact
\* returns (r, nil) with r the value of the k-th invocation of fn, after k
\* begins, one commit and k-1 rollbacks.
C2_ResultOfKthAttempt ==
    ConflictsThenSuccess =>
        /\ retErr = NilErr
        /\ \A i \in Calls("fn") :
              trace[i].attempt = Count("fn") - 1 => result = trace[i].ret
        /\ Count("begin") = Count("fn")
        /\ Count("commit") = 1
        /\ Count("rollback") = Count("fn") - 1

\* success on the third attempt, with a value the earlier attempts did not return
C2_Witness ==
    /\ ConflictsThenSuccess
    /\ Count("fn") = 3
    /\ result \in Values
    /\ \A i \in Calls("fn") : trace[i].attempt < 2 => trace[i].ret \notin {result, Nil}

\* C3: a failed rollback is the last thing a call does: Transact returns
\* (nil, rollbackErr) at once, whatever the retry budget left and whatever the
\* classification of the error fn returned.
C3_RollbackFailureIsFatal ==
    \A i \in Calls("rollback") :
        trace[i].err # NilErr =>
            /\ i = Len(trace)
            /\ pc = "done"
            /\ result = Nil
            /\ retErr = trace[i].err

\* a rollback failed after fn conflicted on the first of three attempts
C3_Witness ==
    /\ pc = "done"
    /\ SerializationRetryMaxAttempts = 3
    /\ Len(trace) = 3
    /\ Last.op = "rollback"
    /\ Last.err # NilErr
    /\ IsSerializationError(trace[2].err)

\* C4: when fn fails with an error that is not a serialization conflict and
\* the rollback succeeds, the rollback is the last thing the call does and
\* Transact returns (nil, that error); the attempt has no commit, and on the
\* first attempt that makes one begin, one rollback, no sleep and no commit.
C4_OtherErrorReturnedUnmodified ==
    \A i \in Calls("fn") :
        ( /\ trace[i].err # NilErr
          /\ ~IsSerializationError(trace[i].err)
          /\ i + 1 \in DOMAIN trace
          /\ trace[i + 1].err = NilErr ) =>
            /\ trace[i + 1].op = "rollback"
            /\ i + 1 = Len(trace)
            /\ pc = "done"
            /\ result = Nil
            /\ retErr = trace[i].err
            /\ \A j \in Calls("commit") : trace[j].attempt # trace[i].attempt
            /\ (trace[i].attempt = 0 =>
                  /\ Count("begin") = 1
                  /\ Count("fn") = 1
                  /\ Count("rollback") = 1
                  /\ Count("sleep") = 0
                  /\ Count("commit") = 0)

\* fn returned a non-conflict error on the first attempt and was rolled back
C4_Witness ==
    /\ pc = "done"
    /\ SerializationRetryMaxAttempts = 3
    /\ Len(trace) = 3
    /\ trace[2].op = "fn"
    /\ trace[2].err = Err("fn", "other")
    /\ trace[2].ret # Nil
    /\ Last.op = "rollback"
    /\ Last.err = NilErr

\* C5: attempt 0 starts without a sleep; attempt i >= 1 starts with one sleep
\* of backoffUnit x i that comes right after the commit or rollback of attempt
\* i-1 and right before the begin of attempt i; a call that exhausts N
\* attempts has slept backoffUnit x (1 + ... + (N-1)).
C5_LinearBackoff ==
    /\ \A i \in Calls("sleep") :
          /\ trace[i].attempt >= 1
          /\ trace[i].dur = SerializationRetryStartInterval * trace[i].attempt
          /\ i > 1
          /\ trace[i - 1].op \in {"commit", "rollback"}
          /\ trace[i - 1].attempt = trace[i].attempt - 1
          /\ (i + 1 \in DOMAIN trace =>
                trace[i + 1].op = "begin" /\ trace[i + 1].attempt = trace[i].attempt)
    /\ \A i \in Calls("begin") :
          IF trace[i].attempt = 0
          THEN i = 1
          ELSE /\ trace[i - 1].op = "sleep"
               /\ trace[i - 1].attempt = trace[i].attempt
    /\ (pc = "done" /\ attempt = SerializationRetryMaxAttempts =>
          /\ Count("sleep") = SerializationRetryMaxAttempts - 1
          /\ 2 * TotalSlept = SerializationRetryStartInterval
                 * SerializationRetryMaxAttempts * (SerializationRetryMaxAttempts - 1))

\* three attempts exhausted with a unit of 10: slept 10 then 20
C5_Witness ==
    /\ pc = "done"
    /\ attempt = 3
    /\ SerializationRetryStartInterval = 10
    /\ Count("sleep") = 2
    /\ TotalSlept = 30

\* C6: a call never begins more than maxAttempts transactions, and every
\* handle it has begun is committed or rolled back exactly once (not both,
\* not twice) before the next attempt starts or the call returns.
C6_OneTerminationPerHandle ==
    /\ Count("begin") <= SerializationRetryMaxAttempts
    /\ Cardinality(openTx) <= 1
    /\ (pc \in {"idle", "loop", "sleep", "begin", "done"} => openTx = {})
    /\ \A i \in Calls("begin") :
          IF trace[i].err # NilErr
          THEN Terminations(trace[i].attempt) = {}
          ELSE /\ Cardinality(Terminations(trace[i].attempt)) <= 1
               /\ \A j \in Terminations(trace[i].attempt) : j > i
               /\ ( \/ pc = "done"
                    \/ \E j \in DOMAIN trace :
                          j > i /\ trace[j].attempt > trace[i].attempt )
                  => Cardinality(Terminations(trace[i].attempt)) = 1
    /\ \A j \in Calls("commit") \cup Calls("rollback") :
          \E i \in Calls("begin") :
              trace[i].attempt = trace[j].attempt /\ trace[i].err = NilErr

\* a finished call of three attempts that both rolled back and committed
C6_Witness ==
    /\ pc = "done"
    /\ Count("begin") = 3
    /\ Count("rollback") >= 1
    /\ Count("commit") >= 1
    /\ openTx = {}

\* C7, as stated: Transact returns ErrSerialization only after exactly
\* maxAttempts attempts that each ended in a classified conflict.
C7_SentinelOnlyWhenExhausted ==
    retErr = ErrSerialization => Exhausted

\* C7, amended: Transact returns ErrSerialization only when the retries are
\* exhausted, or when fn itself returned ErrSerialization and the rollback
\* succeeded, in which case it is the error of fn returned unmodified; a begin
\* failure, a rollback failure, a commit error and a success never return it.
C7_SentinelWhenExhaustedOrFromFn ==
    retErr = ErrSerialization => (Exhausted \/ ReturnedErrorOfFn)

\* three attempts ended in conflicts, of fn and of commit, and the call
\* returned the sentinel
C7_Witness ==
    /\ Exhausted
    /\ retErr = ErrSerialization
    /\ SerializationRetryMaxAttempts = 3
    /\ Count("rollback") >= 1
    /\ Count("commit") >= 1

\* C8: a finished call returned (result, nil) or (nil, error): the error is
\* nil exactly when the last attempt's commit succeeded, the result is then
\* what fn returned in that attempt, and with an error the result is nil.
C8_ResultXorError ==
    /\ (pc # "done" => result = Nil /\ retErr = NilErr)
    /\ (pc = "done" =>
          /\ retErr = NilErr <=>
                (Len(trace) > 0 /\ Last.op = "commit" /\ Last.err = NilErr)
          /\ (retErr = NilErr =>
                /\ Len(trace) >= 2
                /\ trace[Len(trace) - 1].op = "fn"
                /\ trace[Len(trace) - 1].attempt = Last.attempt
                /\ result = trace[Len(trace) - 1].ret)
          /\ (retErr # NilErr => result = Nil))

\* a commit failed after fn had returned a value: that value is not returned
C8_Witness ==
    /\ pc = "done"
    /\ Last.op = "commit"
    /\ Last.err = Err("commit", "other")
    /\ trace[Len(trace) - 1].ret \in Values
    /\ result = Nil
    /\ retErr = Last.err

\* C9: a commit is only tried after fn succeeded.  When it fails with a
\* classified conflict the attempt is not rolled back, the attempt counter
\* goes up by one within the same budget and the loop goes on; when it fails
\* with another error Transact returns (nil, that error) at once.
C9_CommitFailure ==
    \A i \in Calls("commit") :
        /\ i > 1
        /\ trace[i - 1].op = "fn"
        /\ trace[i - 1].err = NilErr
        /\ \A j \in Calls("rollback") : trace[j].attempt # trace[i].attempt
        /\ (IsSerializationError(trace[i].err) =>
              /\ trace[i].attempt + 1 <= SerializationRetryMaxAttempts
              /\ IF i = Len(trace)
                 THEN /\ attempt = trace[i].attempt + 1
                      /\ \/ pc \in {"loop", "sleep"}
                         \/ /\ pc = "done"
                            /\ attempt = SerializationRetryMaxAttempts
                            /\ retErr = ErrSerialization
                            /\ result = Nil
                 ELSE /\ trace[i + 1].op = "sleep"
                      /\ trace[i + 1].attempt = trace[i].attempt + 1)
        /\ (trace[i].err # NilErr /\ ~IsSerializationError(trace[i].err) =>
              /\ i = Len(trace)
              /\ pc = "done"
              /\ result = Nil
              /\ retErr = trace[i].err)

\* the commit of the first attempt was rejected with a conflict and the
\* second attempt has begun
C9_Witness ==
    /\ Len(trace) >= 5
    /\ trace[3].op = "commit"
    /\ IsSerializationError(trace[3].err)
    /\ trace[5].op = "begin"
    /\ trace[5].err = NilErr

\* C10: a failed begin is the last thing a call does: Transact returns
\* (nil, the begin error) without calling fn, commit or rollback in that
\* attempt and without another attempt, also when the error is a conflict.
C10_BeginFailureIsFatal ==
    \A i \in Calls("begin") :
        trace[i].err # NilErr =>
            /\ i = Len(trace)
            /\ pc = "done"
            /\ result = Nil
            /\ retErr = trace[i].err
            /\ OfAttempt(trace[i].attempt) \subseteq Calls("begin") \cup Calls("sleep")
            /\ openTx = {}

\* the begin of the second of three attempts failed with a conflict
C10_Witness ==
    /\ pc = "done"
    /\ SerializationRetryMaxAttempts = 3
    /\ Last.op = "begin"
    /\ Last.attempt = 1
    /\ IsSerializationError(Last.err)

\* the context of the call was cancelled while the call had an attempt in
\* progress or still to make
CancelledInTime ==
    /\ cancelledAt # NilPtr
    /\ cancelledAt[1].pc \notin {"idle", "done"}
    /\ cancelledAt[1].attempt < SerializationRetryMaxAttempts

\* C11: once the context of a call is cancelled, the attempt in progress does
\* not end in a serialization conflict, the call returns a non-serialization
\* error (it neither succeeds nor gives up with ErrSerialization for
\* exhausted retries), and no later attempt runs fn.
C11_CancellationWins ==
    (CancelledInTime /\ pc = "done") =>
        /\ retErr # NilErr
        /\ ~Exhausted
        /\ ~IsSerializationError(retErr)
        /\ ~EndedInConflict(cancelledAt[1].attempt)
        /\ \A i \in Calls("fn") :
              i > cancelledAt[1].len => trace[i].attempt = cancelledAt[1].attempt

\* the value each field of the options must end with: that of the last
\* option touching it, else that of the facade, else the default
ExpectedOptions ==
    [logger |->
        IF Touching("WithLogger") # {} THEN LastOpt("WithLogger").logger
        ELSE IF facades[d].queryOptions # NilPtr
        THEN facades[d].queryOptions[1].logger
        ELSE DefaultLogger,
     ctx |->
        IF Touching("WithContext") # {} THEN LastOpt("WithContext").arg
        ELSE IF facades[d].queryOptions # NilPtr
        THEN facades[d].queryOptions[1].ctx
        ELSE Background,
     isolationLevel |->
        IF Touching("WithIsolationLevel") # {} THEN LastOpt("WithIsolationLevel").arg
        ELSE "serializable",
     readOnly |-> Touching("ReadOnly") # {}]

\* the options of the call are the expected ones, and so is what it passes
\* to BeginTxx and the logger it warns on
OptionsAsExpected ==
    pc # "idle" =>
        /\ options = Ptr(ExpectedOptions)
        /\ \A i \in DOMAIN begins :
              begins[i] = [ctx |-> ExpectedOptions.ctx,
                           isolation |-> ExpectedOptions.isolationLevel,
                           readOnly |-> ExpectedOptions.readOnly]
        /\ \A i \in DOMAIN warnings : warnings[i].logger = ExpectedOptions.logger

\* C15: the options of a call are the defaults, overridden by the context and
\* logger of a derived facade, overridden by the caller's options in order:
\* each field has the value of the last option touching it, an untouched
\* field keeps its earlier value, and no call changes a facade.
C15_OptionsLastWins ==
    /\ OptionsAsExpected
    /\ facades = <<NewSqlxDatabase, DerivedFacade("ctx1")>>

\* on a facade derived with ctx1, a call passed WithContext(ctx1) then
\* WithContext(ctx2) has begun with ctx2 and kept the logger of the facade
C15_Witness ==
    /\ d = 2
    /\ opts = <<WithContext("ctx1"), WithContext("ctx2")>>
    /\ Len(begins) >= 1
    /\ begins[1].ctx = "ctx2"
    /\ options[1].logger = Logger("default", "ctx1")
    /\ facades[d] = DerivedFacade("ctx1")

\* C16: a read-only call retries like any other: the state of a call is the
\* one its begin/fn/commit/rollback outcomes determine, whatever the options,
\* and the readOnly flag is only handed to BeginTxx.
C16_ReadOnlyRetriesAlike ==
    /\ pc \notin {"idle", "loop"} =>
          LET s == Replay(trace, SerializationRetryMaxAttempts)
          IN /\ pc = s.pc
             /\ attempt = s.attempt
             /\ result = s.result
             /\ retErr = s.retErr
    /\ \A i \in DOMAIN begins : begins[i].readOnly = (Touching("ReadOnly") # {})
    /\ Len(begins) = Count("begin")
    /\ Count("sleep") = dbRetriesCount

\* a read-only call was retried after a conflict and has returned
C16_Witness ==
    /\ pc = "done"
    /\ options[1].readOnly
    /\ Count("sleep") >= 1
    /\ Len(begins) = 2
    /\ begins[2].readOnly

\* C12: with concurrent callers on one pool, a call holds at most one
\* connection, exactly from a successful begin to the commit or rollback of
\* that attempt (none while it backs off or after it returned), and the state
\* of a call is the one its own outcomes determine, whatever the others do.
C12_OneConnectionPerCall ==
    /\ Cardinality(inUse) <= poolSize
    /\ \A c \in Callers :
          /\ Cardinality(HeldBy(c)) <= 1
          /\ HeldBy(c) # {} <=> callers[c].state.pc \in {"fn", "rollback", "commit"}
          /\ HeldBy(c) \subseteq {<<c, callers[c].state.attempt>>}
          /\ callers[c].state.open = (HeldBy(c) # {})
          /\ callers[c].state.pc # "idle" =>
                callers[c].state =
                    Replay(callers[c].trace, SerializationRetryMaxAttempts)

\* two callers hold a connection each, one of them in its second attempt,
\* after the other got its connection while the first backed off
C12_Witness ==
    /\ poolSize = 2
    /\ callers[1].state.pc = "fn"
    /\ callers[1].state.attempt = 1
    /\ callers[2].state.pc = "commit"
    /\ Cardinality(inUse) = 2

\* C13: WithContext(ctx) makes a new facade whose Get, Queryx, Exec and
\* Transact use ctx and a logger derived from it; every facade, the original
\* and those derived before, keeps the context and logger it was created
\* with, and all share the pool.
C13_WithContextLeavesOriginal ==
    /\ Len(created) = Len(facades)
    /\ \A i \in DOMAIN facades :
          /\ getContext(facades[i]) = ContextAtCreation(i)
          /\ getLogger(facades[i]) = LoggerAtCreation(i)
          /\ facades[i].db = facades[1].db
    /\ facades[1] = NewSqlxDatabase
    /\ lastCall # NilPtr =>
          /\ lastCall[1].ctx = ContextAtCreation(lastCall[1].facade)
          /\ \A j \in DOMAIN lastCall[1].logged :
                lastCall[1].logged[j].logger = LoggerAtCreation(lastCall[1].facade)
    /\ pc # "idle" =>
          /\ options[1].ctx = ContextAtCreation(d)
          /\ options[1].logger = LoggerAtCreation(d)

\* two facades derived with different contexts, the second from the first;
\* a slow query on the first one was logged, and Transact runs on the second
C13_Witness ==
    /\ Len(facades) = 3
    /\ created = <<Nil, "ctx1", "ctx2">>
    /\ lastCall # NilPtr
    /\ lastCall[1].facade = 2
    /\ lastCall[1].ctx = "ctx1"
    /\ Len(lastCall[1].logged) = 1
    /\ d = 3
    /\ pc # "idle"
    /\ options[1].ctx = "ctx2"

\* C17: a call of Get, Queryx or Exec logs one "database done" entry when it
\* took more than 100ms and none otherwise (none at 100ms); the entry has the
\* kind of the call, its query, arguments and duration, and has the error
\* exactly when the call returned one, that of RowsAffected included.
C17_SlowQueryLogged ==
    lastCall # NilPtr =>
        LET c == lastCall[1]
        IN /\ Len(c.logged) = IF c.dur > SlowThreshold THEN 1 ELSE 0
           /\ doneLogs = c.logsBefore + Len(c.logged)
           /\ \A j \in DOMAIN c.logged :
                 /\ c.logged[j].msg = "database done"
                 /\ c.logged[j].fields.type = c.kind
                 /\ c.logged[j].fields.query = c.query
                 /\ c.logged[j].fields.args = c.args
                 /\ c.logged[j].duration = c.dur
                 /\ c.logged[j].hasError = (c.err # NilErr)
                 /\ c.logged[j].hasError => c.logged[j].error = c.err

\* an Exec that took just over 100ms and failed reading the rows affected
\* was logged with that error, after an earlier logged call
C17_Witness ==
    /\ lastCall # NilPtr
    /\ lastCall[1].kind = "exec"
    /\ lastCall[1].dur = SlowThreshold + 1
    /\ lastCall[1].err = Err("rows", "other")
    /\ Len(lastCall[1].logged) = 1
    /\ lastCall[1].logged[1].error = Err("rows", "other")
    /\ doneLogs = 2

\* C14: Metadata returns a nil error after its three sub-queries have all
\* run, in order, and its map holds the keys of a sub-query exactly when the
\* Transact of that sub-query succeeded, with the values it returned.
C14_MetadataToleratesFailure ==
    /\ mpc = "done" =>
          /\ mret[1].err = NilErr
          /\ Len(subcalls) = 3
          /\ subcalls[1].fn = "version"
          /\ subcalls[2].fn = "aurora"
          /\ subcalls[3].fn = "settings"
          /\ DOMAIN mret[1].metadata =
                DOMAIN KeysOf(subcalls[1]) \cup DOMAIN KeysOf(subcalls[2])
                    \cup DOMAIN KeysOf(subcalls[3])
          /\ \A i \in 1..3 : \A k \in DOMAIN KeysOf(subcalls[i]) :
                mret[1].metadata[k] = KeysOf(subcalls[i])[k]
    /\ \A i \in DOMAIN subcalls : \A k \in DOMAIN KeysOf(subcalls[i]) :
          k \in DOMAIN metadata /\ metadata[k] = KeysOf(subcalls[i])[k]

\* the version query failed, the aurora query succeeded after a retry, the
\* settings query succeeded on an RDS data directory
C14_Witness ==
    /\ mpc = "done"
    /\ subcalls[1].retErr # NilErr
    /\ subcalls[2].retErr = NilErr
    /\ subcalls[3].retErr = NilErr
    /\ subcalls[3].result = "rds"
    /\ DOMAIN mret[1].metadata =
          {"postgresql_aurora_version", "postgresql_setting_is_rds",
           "postgresql_setting_TimeZone"}
    /\ mret[1].metadata["postgresql_setting_is_rds"] = "true"
    /\ dbRetriesCount >= 1

\* the commits that succeeded
Committed == { i \in Calls("commit") : trace[i].err = NilErr }

\* C18: at most one commit succeeds and it is the last thing the call does;
\* fn runs at most once per attempt, right after a successful begin of that
\* attempt and on the open handle of it; every invocation of fn but the last
\* is directly followed by a rollback that succeeded or by a commit rejected
\* with a serialization error.
C18_OneCommitThenNothing ==
    /\ Cardinality(Committed) <= 1
    /\ \A i \in Committed :
          /\ i = Len(trace)
          /\ pc = "done"
          /\ retErr = NilErr
          /\ openTx = {}
    /\ \A i, j \in Calls("fn") : trace[i].attempt = trace[j].attempt => i = j
    /\ \A i \in Calls("fn") :
          /\ i > 1
          /\ trace[i - 1].op = "begin"
          /\ trace[i - 1].err = NilErr
          /\ trace[i - 1].attempt = trace[i].attempt
    /\ pc = "fn" => /\ tx = attempt
                    /\ openTx = {tx}
                    /\ Last.op = "begin"
    /\ \A i \in Calls("fn") :
          (\E j \in Calls("fn") : j > i) =>
              /\ trace[i + 1].attempt = trace[i].attempt
              /\ \/ trace[i + 1].op = "rollback" /\ trace[i + 1].err = NilErr
                 \/ /\ trace[i + 1].op = "commit"
                    /\ IsSerializationError(trace[i + 1].err)

\* a call that committed on its third attempt, after one attempt rolled back
\* and one whose commit was rejected
C18_Witness ==
    /\ pc = "done"
    /\ Committed = {Len(trace)}
    /\ Count("fn") = 3
    /\ Count("rollback") = 1
    /\ Count("commit") = 2

\* the attempt numbers of the begins are strictly increasing
AttemptsIncrease ==
    \A i, j \in Calls("begin") : i < j => trace[i].attempt < trace[j].attempt

\* C19: a call that has been made returns, when each operation it invokes
\* returns; by then fn ran at most SerializationRetryMaxAttempts times, the
\* call slept at most one time less, and each iteration that did not return
\* ran under a larger attempt number than the one before.
C19_CallReturns ==
    (pc # "idle") ~>
        /\ pc = "done"
        /\ attempt <= SerializationRetryMaxAttempts
        /\ Count("fn") <= SerializationRetryMaxAttempts
        /\ Count("sleep") <= SerializationRetryMaxAttempts - 1
        /\ AttemptsIncrease

\* a call that returned after using every attempt, some ended by a rollback
\* and some by a rejected commit
C19_Witness ==
    /\ pc = "done"
    /\ SerializationRetryMaxAttempts = MaxAttemptsBound
    /\ attempt = SerializationRetryMaxAttempts
    /\ Count("fn") = SerializationRetryMaxAttempts
    /\ Count("sleep") = SerializationRetryMaxAttempts - 1
    /\ Count("rollback") >= 1
    /\ Count("commit") >= 1
    /\ AttemptsIncrease

\* C20: concurrent calls of WriteBlob that succeed with the same content and
\* repository return the same object name; a returned object is held by the
\* adapter and no call asks to remove it; a call asks to remove an object only
\* when it returns the name of another one, and then exactly once, for the
\* object it uploaded itself, which is gone when the removal succeeded.
C20_DedupKeepsTheWinner ==
    /\ \A v, w \in Writers :
          Succeeded(v) /\ Succeeded(w) /\ SameBlob(v, w) =>
              writers[v].ret = writers[w].ret
    /\ \A w \in Writers :
          Succeeded(w) =>
              /\ writers[w].ret \in objects
              /\ \A r \in removes : r.objName # writers[w].ret
    /\ \A r \in removes : r.objName = EncodeToString(UUIDs[r.writer + 1])
    /\ \A w \in Writers :
          /\ Lost(w) =>
                /\ Cardinality(RemovesOf(w)) = 1
                /\ \A r \in RemovesOf(w) :
                      r.err = NilErr => r.objName \notin objects
          /\ writers[w].pc = "done" /\ ~Lost(w) => RemovesOf(w) = {}

\* three calls with the same content and repository have all succeeded: one
\* kept its own object, the two others removed theirs
C20_Witness ==
    /\ dedup # Earlier.dedup
    /\ \A v, w \in Writers : Succeeded(v) /\ SameBlob(v, w)
    /\ Cardinality({ w \in Writers : Lost(w) }) = NumWriters - 1
    /\ Cardinality(removes) = NumWriters - 1
    /\ \E r \in removes : r.err = NilErr

====
